---- MODULE Spec2Model ----
(***************************************************************************)
(* Transcript relay: the hook command-line entry points (src/src/cli.ts,   *)
(* src/src/hook.ts and the two earlier hook revisions) and the ingestion   *)
(* endpoint in its five revisions (src/api/upload.ts, src/unnamed/part_000,*)
(* the two handlers of src/unnamed/part_001, src/public/install.sh).       *)
(*                                                                         *)
(* One behaviour is one warm server process running one endpoint revision, *)
(* serving MaxReq request slots.  A slot is used once, either by a request *)
(* sent by an arbitrary HTTP client or by one run of a hook process whose  *)
(* POST, when it issues one, becomes the slot's request.                   *)
(*                                                                         *)
(* JavaScript runs a handler from its entry to its first suspension on an  *)
(* external event without interleaving, so each action is one such run.    *)
(***************************************************************************)
EXTENDS Integers, Sequences, FiniteSets, TLC

\* Number of request slots of one behaviour.
MaxReq == 2

Slots == 1..MaxReq

\* ------------------------------------------------------------------------
\* Values
\* ------------------------------------------------------------------------

\* JavaScript's undefined, as a property value.
Undefined == "undefined"

FalsyOnlyUndefined(x) == x = Undefined

\* !x for the string-or-undefined values the handlers test.
Falsy(x) == x \in {Undefined, ""}

\* a || b
OrElse(a, b) == IF Falsy(a) THEN b ELSE a

\* A JSON object is a function from its own keys to their values.
EmptyObj == [k \in {} |-> Undefined]

\* obj.key: undefined when the key is not an own property.
Get(obj, key) == IF key \in DOMAIN obj THEN obj[key] ELSE Undefined

SpreadLastWins(a, b) ==
    [k \in DOMAIN a \cup DOMAIN b |-> IF k \in DOMAIN b THEN b[k] ELSE a[k]]

SpreadFirstWins(a, b) ==
    [k \in DOMAIN a \cup DOMAIN b |-> IF k \in DOMAIN a THEN a[k] ELSE b[k]]

\* { ...a, k1: v1, k2: v2 } written as Spread(a, [k1 |-> v1, k2 |-> v2]):
\* a property named later replaces one spread earlier.
Spread(a, b) == SpreadLastWins(a, b)

\* The keys JSON.stringify keeps: a property whose value is undefined is
\* dropped.  Only string-valued keys can be undefined in this model.
Stringify(obj, stringKeys) ==
    [k \in {j \in DOMAIN obj : ~(j \in stringKeys /\ obj[j] = Undefined)} |-> obj[k]]

\* ------------------------------------------------------------------------
\* Endpoint revisions
\* ------------------------------------------------------------------------

Variants == {"upload", "plain", "cors", "timed", "s3"}

\* src/api/upload.ts is the only revision with the x-api-key gate.
HasAuth(v) == v = "upload"

\* Revisions that answer the OPTIONS preflight.
HasCors(v) == v \in {"cors", "timed", "s3"}

\* Revisions that validate with payload.session_id and payload.tool_use_id
\* (no optional chaining, two required fields).
Strict(v) == v \in {"upload", "plain"}

IsBlob(v) == v = "s3"

\* The server-side shared secret, when configured.
ExpectedKey == "k1"

\* ------------------------------------------------------------------------
\* Inputs
\* ------------------------------------------------------------------------

Methods == {"POST", "GET", "OPTIONS"}

\* x-api-key as sent: absent, the secret, or another value.  It is varied
\* only against the revision that reads it.
KeyHeaders(v) == IF HasAuth(v) THEN {Undefined, "k1", "bad"} ELSE {Undefined}

\* tool_use_id is varied only against the revisions that test it.
ToolUseIdValues(v) == IF Strict(v) THEN {Undefined, "t1"} ELSE {Undefined}

\* A client payload: session_id and tool_use_id present or not, and
\* optionally client-supplied uploaded_at / client_ip.
MkPayload(sid, tid, forged) ==
    LET base == [reason |-> "clear", transcript |-> <<>>]
        s == IF sid = Undefined THEN EmptyObj ELSE [session_id |-> sid]
        t == IF tid = Undefined THEN EmptyObj ELSE [tool_use_id |-> tid]
        f == IF forged THEN [uploaded_at |-> 0, client_ip |-> "6.6.6.6"] ELSE EmptyObj
    IN  SpreadLastWins(SpreadLastWins(SpreadLastWins(base, s), t), f)

\* The tool_use_id a complete payload carries for revision v.
FullTid(v) == IF Strict(v) THEN "t1" ELSE Undefined

\* Payloads with every field the revision requires: session s1 with and
\* without client-supplied server fields, and a second session.
CompletePayloads(v) ==
    {MkPayload("s1", FullTid(v), forged) : forged \in BOOLEAN}
        \cup {MkPayload("s2", FullTid(v), FALSE)}

\* Payloads that lack a required field: session_id absent or empty (with and
\* without the other fields), or tool_use_id absent.
IncompletePayloads(v) ==
    {MkPayload(sid, tid, FALSE) : sid \in {Undefined, ""}, tid \in ToolUseIdValues(v)}
        \cup {MkPayload(Undefined, FullTid(v), TRUE)}
        \cup (IF Strict(v) THEN {MkPayload("s1", Undefined, FALSE)} ELSE {})

\* req.body: a parsed JSON object, or nothing (undefined), or JSON null.
NoBody == [kind |-> "undefined", obj |-> EmptyObj]

NullBody == [kind |-> "null", obj |-> EmptyObj]

ObjBody(p) == [kind |-> "object", obj |-> p]

\* The x-forwarded-for header and the socket's remote address.
Addresses ==
    {[xff |-> Undefined, sock |-> Undefined],
     [xff |-> Undefined, sock |-> "10.0.0.1"],
     [xff |-> "1.2.3.4", sock |-> "10.0.0.1"]}

Request(m, k, b, a) == [method |-> m, key |-> k, body |-> b, xff |-> a.xff, sock |-> a.sock]

DefaultAddress == [xff |-> "1.2.3.4", sock |-> "10.0.0.1"]

\* What an arbitrary client may send to revision v.  With the x-api-key the
\* revision expects (or none, for a revision that reads none): complete
\* payloads from every address, incomplete payloads and missing bodies.
\* With the header absent or wrong, where the revision reads it: one
\* complete payload, one without session_id, and no body.  And the other
\* methods, which carry no body.
DirectInputs(v) ==
    LET right == IF HasAuth(v) THEN ExpectedKey ELSE Undefined
    IN  {Request("POST", right, ObjBody(p), a) :
            p \in CompletePayloads(v), a \in Addresses}
        \cup
        {Request("POST", right, b, DefaultAddress) :
            b \in {ObjBody(p) : p \in IncompletePayloads(v)} \cup {NoBody, NullBody}}
        \cup
        {Request("POST", k, b, DefaultAddress) :
            k \in KeyHeaders(v) \ {right},
            b \in {ObjBody(MkPayload("s1", FullTid(v), FALSE)),
                   ObjBody(MkPayload(Undefined, FullTid(v), FALSE)), NoBody}}
        \cup
        {Request(m, k, NoBody, DefaultAddress) : m \in Methods \ {"POST"}, k \in KeyHeaders(v)}

VARIABLES
    variant,       \* the endpoint revision this process runs
    env,           \* process.env: which settings are present
    cachedClient,  \* the module-level cached handle: 0 is null, else a client
    clients,       \* every client constructed, by number: its connection state
    connectCalls,  \* calls of connect() made by the endpoint code
    clock,         \* the server's clock (new Date())
    req,           \* the request slots
    coll,          \* the document store's collection, in insertion order
    bucket,        \* the blob store: a set of [key, body] objects, one per key
    hook,          \* the hook process of each slot
    loader,        \* one run of the transcript loader on its own
    inst           \* ~/.claude/settings.json under runs of install

vars ==
    <<variant, env, cachedClient, clients, connectCalls, clock, req, coll, bucket, hook,
      loader, inst>>

\* ------------------------------------------------------------------------
\* The ingestion endpoint
\* ------------------------------------------------------------------------

NoInput ==
    [method |-> "NONE", key |-> Undefined, body |-> NoBody,
     xff |-> Undefined, sock |-> Undefined]

\* A request slot.  json records that the response carries a JSON body;
\* cachedAtCall is what the module-level cache held when the handler called
\* getMongoClient or getS3Client (-1 before the call);
\* connects and writes count the connect() calls and the
\* insertOne/send calls the handler made for this request; ready records
\* whether the handle getMongoClient returned to it had finished connect();
\* builtAt is the value new Date() had when the document was built; seen is
\* the set of requests already answered when this one arrived.
IdleReq ==
    [pc |-> "idle", origin |-> "none", in |-> NoInput,
     status |-> 0, error |-> "", message |-> "", json |-> FALSE, thrown |-> "",
     id |-> 0, key |-> <<>>, nresp |-> 0,
     cachedAtCall |-> -1, handle |-> 0, ready |-> FALSE, connects |-> 0, writes |-> 0,
     doc |-> EmptyObj, builtAt |-> 0, wrote |-> FALSE, seen |-> {}]

\* res.status(status).json({error, message}) or .json({success: true, id})
Reply(q, status, error, message) ==
    [q EXCEPT !.pc = "done", !.status = status, !.error = error,
              !.message = message, !.json = TRUE, !.nresp = @ + 1]

CatchUnknown(q, message) ==
    [Reply(q, 500, "Internal server error", "Unknown error") EXCEPT !.thrown = message]

\* catch (error) { res.status(500).json({error: "Internal server error",
\* message: error.message}) }: thrown keeps the message of the error caught.
Catch(q, message) ==
    [Reply(q, 500, "Internal server error", message) EXCEPT !.thrown = message]

\* res.status(status).end(): a response without a body.
End(q, status) == [q EXCEPT !.pc = "done", !.status = status, !.nresp = @ + 1]

MissingText(v) == IF Strict(v) THEN "Missing required fields" ELSE "Missing session_id"

\* Reading the payload and validating it: "throw" when an expression of the
\* handler raises a TypeError, "missing" for the 400 branch, else "ok".
ValidateStrict(body) ==
    IF body.kind # "object" THEN "throw"
    ELSE IF Falsy(Get(body.obj, "session_id")) \/ Falsy(Get(body.obj, "tool_use_id"))
         THEN "missing" ELSE "ok"

ValidateAnyObject(body) == IF body.kind # "object" THEN "missing" ELSE "ok"

\* !payload?.session_id
ValidateOptional(body) ==
    IF body.kind # "object" \/ Falsy(Get(body.obj, "session_id")) THEN "missing" ELSE "ok"

\* JSON.stringify(req.body).slice(0, 500): JSON.stringify(undefined) is
\* undefined, whose .slice raises.
ValidateLogged(body) ==
    IF body.kind = "undefined" THEN "throw" ELSE ValidateOptional(body)

Validate(v, body) ==
    IF Strict(v) THEN ValidateStrict(body)
    ELSE IF v = "cors" THEN ValidateLogged(body)
    ELSE ValidateOptional(body)

KeyRejectedWhenPresent(e, key) == e.apiKey /\ key \notin {Undefined, ExpectedKey}

\* expectedKey && apiKey !== expectedKey
KeyRejected(e, key) == e.apiKey /\ key # ExpectedKey

MethodAllowedAny(m) == TRUE

\* req.method !== "POST" is answered 405.
MethodAllowed(m) == m = "POST"

\* The checks made before any backend work: the response they produce, or
\* status 0 when the request passes them all.  `empty` marks a response
\* ended without a body (res.status(200).end()).
Early(v, e, in) ==
    IF HasCors(v) /\ in.method = "OPTIONS"
    THEN [status |-> 200, error |-> "", message |-> "", empty |-> TRUE]
    ELSE IF ~MethodAllowed(in.method)
         THEN [status |-> 405, error |-> "Method not allowed", message |-> "", empty |-> FALSE]
    ELSE IF HasAuth(v) /\ KeyRejected(e, in.key)
         THEN [status |-> 401, error |-> "Unauthorized", message |-> "", empty |-> FALSE]
    ELSE IF Validate(v, in.body) = "throw"
         THEN [status |-> 500, error |-> "Internal server error", message |-> "TypeError",
               empty |-> FALSE]
    ELSE IF Validate(v, in.body) = "missing"
         THEN [status |-> 400, error |-> MissingText(v), message |-> "", empty |-> FALSE]
    ELSE [status |-> 0, error |-> "", message |-> "", empty |-> FALSE]

\* The best-effort client address.
ClientIp(v, in) ==
    IF Strict(v) THEN OrElse(in.xff, in.sock)
    ELSE OrElse(OrElse(in.xff, in.sock), "unknown")

\* { ...payload, uploaded_at: new Date(), client_ip }
BuildDocument(payload, now, ip) ==
    Spread(payload, [uploaded_at |-> now, client_ip |-> ip])

\* `transcripts/${payload.session_id}.json`
S3Key(sid) == <<"transcripts/", sid, ".json">>

\* The value of the module-level cache after `cachedClient = new MongoClient(..)`.
CacheNone(old, c) == old

CacheConstructed(old, c) == c

\* The handler has its handle: it builds the document and issues the write.
IssueWrite(q, h, isReady) ==
    [q EXCEPT !.pc = "inserting", !.handle = h, !.ready = isReady,
              !.doc = BuildDocument(q.in.body.obj, clock, ClientIp(variant, q.in)),
              !.builtAt = clock, !.writes = @ + 1]

\* The handler calls getMongoClient or getS3Client.
Called(q) == [q EXCEPT !.cachedAtCall = cachedClient]

\* getMongoClient and the handler up to its next suspension.
MongoEntry(r, q0) ==
    LET q == Called(q0) IN
    IF ~env.uri
    THEN /\ req' = [req EXCEPT ![r] = Catch(q, "MONGODB_URI environment variable not set")]
         /\ UNCHANGED <<cachedClient, clients, connectCalls, clock>>
    ELSE IF cachedClient # 0
    THEN /\ req' = [req EXCEPT ![r] =
                        IssueWrite(q, cachedClient, clients[cachedClient] = "connected")]
         /\ clock' = clock + 1
         /\ UNCHANGED <<cachedClient, clients, connectCalls>>
    ELSE /\ clients' = Append(clients, "connecting")
         /\ cachedClient' = CacheConstructed(cachedClient, Len(clients) + 1)
         /\ connectCalls' = connectCalls + 1
         /\ req' = [req EXCEPT ![r] = [q EXCEPT !.pc = "connecting",
                                                !.handle = Len(clients) + 1,
                                                !.connects = @ + 1]]
         /\ UNCHANGED clock

\* The S3 revision: bucket lookup, getS3Client (synchronous, no connect),
\* document, PutObjectCommand, send.
BlobEntry(r, q) ==
    IF ~env.bucketVar
    THEN /\ req' = [req EXCEPT ![r] = Catch(q, "S3_BUCKET environment variable not set")]
         /\ UNCHANGED <<cachedClient, clients, connectCalls, clock>>
    ELSE IF ~env.aws
    THEN /\ req' = [req EXCEPT ![r] =
                        Catch(Called(q), "Missing required AWS environment variables")]
         /\ UNCHANGED <<cachedClient, clients, connectCalls, clock>>
    ELSE IF cachedClient # 0
    THEN /\ req' = [req EXCEPT ![r] = IssueWrite(Called(q), cachedClient, TRUE)]
         /\ clock' = clock + 1
         /\ UNCHANGED <<cachedClient, clients, connectCalls>>
    ELSE /\ clients' = Append(clients, "connected")
         /\ cachedClient' = CacheConstructed(cachedClient, Len(clients) + 1)
         /\ req' = [req EXCEPT ![r] = IssueWrite(Called(q), Len(clients) + 1, TRUE)]
         /\ clock' = clock + 1
         /\ UNCHANGED connectCalls

\* The handler is invoked for slot r with request `in` from `origin`.
Arrive(r, in, origin) ==
    LET q == [req[r] EXCEPT !.in = in, !.origin = origin,
                            !.seen = {s \in Slots : req[s].pc = "done"}]
        e == Early(variant, env, in)
    IN  /\ req[r].pc = "idle"
        /\ IF e.status # 0
           THEN /\ req' = [req EXCEPT ![r] =
                               IF e.empty THEN End(q, e.status)
                               ELSE IF e.status = 500 THEN Catch(q, e.message)
                               ELSE Reply(q, e.status, e.error, e.message)]
                /\ UNCHANGED <<cachedClient, clients, connectCalls, clock>>
           ELSE IF IsBlob(variant) THEN BlobEntry(r, q) ELSE MongoEntry(r, q)
        /\ UNCHANGED <<variant, env, coll, bucket, loader, inst>>

\* connect() of client c settles; the request awaiting it resumes.
ConnectSettle(c, ok) ==
    /\ c \in 1..Len(clients)
    /\ clients[c] = "connecting"
    /\ clients' = [clients EXCEPT ![c] = IF ok THEN "connected" ELSE "failed"]
    /\ req' = [r \in Slots |->
                 IF req[r].pc = "connecting" /\ req[r].handle = c
                 THEN IF ok THEN IssueWrite(req[r], c, TRUE)
                      ELSE Catch(req[r], "connect failed")
                 ELSE req[r]]
    /\ clock' = IF ok THEN clock + 1 ELSE clock
    /\ UNCHANGED <<variant, env, cachedClient, connectCalls, coll, bucket, hook, loader, inst>>

InsertOneUpsert(c, doc) ==
    IF \E i \in 1..Len(c) : Get(c[i], "session_id") = Get(doc, "session_id")
    THEN [i \in 1..Len(c) |->
             IF Get(c[i], "session_id") = Get(doc, "session_id")
             THEN Spread(doc, [_id |-> i]) ELSE c[i]]
    ELSE Append(c, Spread(doc, [_id |-> Len(c) + 1]))

\* collection.insertOne(document): one new record, with a generated _id.
InsertOne(c, doc) == Append(c, Spread(doc, [_id |-> Len(c) + 1]))

PutObjectKeepingOld(b, key, body) == b \cup {[key |-> key, body |-> body]}

\* PutObject: the object at the key is replaced.
PutObject(b, key, body) == {o \in b : o.key # key} \cup {[key |-> key, body |-> body]}

DocStringKeys == {"session_id", "tool_use_id", "reason", "client_ip"}

CancelledWhenClientGone(q, h) == q.origin = "hook" /\ h.pc = "exited"

\* No revision listens for the close of the request's connection: a handler
\* whose client has gone is never cancelled.
Cancelled(q, h) == FALSE

\* The backend performs (or rejects) the write the request issued.
BackendWrite(r, ok) ==
    /\ req[r].pc = "inserting"
    /\ ~Cancelled(req[r], hook[r])
    /\ IF ~ok
       THEN /\ req' = [req EXCEPT ![r].pc = "written", ![r].wrote = FALSE]
            /\ UNCHANGED <<coll, bucket>>
       ELSE IF IsBlob(variant)
       THEN /\ bucket' = PutObject(bucket, S3Key(Get(req[r].doc, "session_id")),
                                   Stringify(req[r].doc, DocStringKeys))
            /\ req' = [req EXCEPT ![r].pc = "written", ![r].wrote = TRUE,
                                  ![r].key = S3Key(Get(req[r].doc, "session_id"))]
            /\ UNCHANGED coll
       ELSE /\ coll' = InsertOne(coll, req[r].doc)
            /\ req' = [req EXCEPT ![r].pc = "written", ![r].wrote = TRUE,
                                  ![r].id = Len(coll) + 1]
            /\ UNCHANGED bucket
    /\ UNCHANGED <<variant, env, cachedClient, clients, connectCalls, clock, hook, loader, inst>>

RetryWrite(q) == [q EXCEPT !.pc = "inserting", !.writes = @ + 1]

AnswerSuccess(q) == Reply(q, 200, "", "")

\* The awaited insertOne/send rejects: the catch block answers.
OnWriteRejected(q) == Catch(q, "write rejected")

\* The awaited write settles and the handler answers.
HandlerResume(r) ==
    /\ req[r].pc = "written"
    /\ req' = [req EXCEPT ![r] =
                 IF req[r].wrote THEN Reply(req[r], 200, "", "")
                 ELSE OnWriteRejected(req[r])]
    /\ UNCHANGED <<variant, env, cachedClient, clients, connectCalls, clock, coll, bucket,
                   hook, loader, inst>>

\* ------------------------------------------------------------------------
\* The hook entry points
\* ------------------------------------------------------------------------

\* "cli": hook of src/src/cli.ts.  "hook_ts": main/uploadToAPI of
\* src/src/hook.ts.
HookVariants == {"cli", "hook_ts"}

\* Hook processes of one behaviour.
MaxHooks == 1

\* setTimeout(resolve, 50) before process.exit(0)
GraceMs == 50

\* setTimeout(() => controller.abort(), 4000)
AbortMs == 4000

\* The text of a transcript file is a sequence of characters: the digits
\* make JSON numbers, " " and "\n" are white space, "x" is a character no
\* JSON text of this alphabet contains.
Chars == {"1", "2", " ", "\n", "x"}

\* Longest file text of the loader's own specification.
MaxChars == 5

Digit(c) == IF c = "1" THEN 1 ELSE 2

IsDigit(c) == c \in {"1", "2"}

IsSpace(c) == c \in {" ", "\n"}

RECURSIVE TrimStart(_)
TrimStart(s) ==
    IF s # <<>> /\ IsSpace(Head(s)) THEN TrimStart(Tail(s)) ELSE s

RECURSIVE TrimEnd(_)
TrimEnd(s) ==
    IF s # <<>> /\ IsSpace(s[Len(s)]) THEN TrimEnd(SubSeq(s, 1, Len(s) - 1)) ELSE s

\* String.prototype.trim
Trim(s) == TrimEnd(TrimStart(s))

RECURSIVE Split(_)
\* s.split("\n"): the pieces between the newlines; "" gives one empty piece.
Split(s) ==
    IF \A i \in 1..Len(s) : s[i] # "\n" THEN <<s>>
    ELSE LET n == CHOOSE i \in 1..Len(s) : s[i] = "\n" /\ \A j \in 1..(i - 1) : s[j] # "\n"
         IN  <<SubSeq(s, 1, n - 1)>> \o Split(SubSeq(s, n + 1, Len(s)))

RECURSIVE NumberOf(_)
\* The value of a digit string.
NumberOf(ds) ==
    IF ds = <<>> THEN 0 ELSE 10 * NumberOf(SubSeq(ds, 1, Len(ds) - 1)) + Digit(ds[Len(ds)])

\* JSON.parse(line): white space around the value is skipped; the value must
\* be one number; anything else is a SyntaxError.
JsonParse(line) ==
    LET t == Trim(line)
    IN  IF t # <<>> /\ \A i \in 1..Len(t) : IsDigit(t[i])
        THEN [ok |-> TRUE, value |-> NumberOf(t)]
        ELSE [ok |-> FALSE, value |-> 0]

KeepAll(ls) == ls

RECURSIVE FilterBoolean(_)
\* .filter(Boolean): the empty strings are dropped.
FilterBoolean(ls) ==
    IF ls = <<>> THEN <<>>
    ELSE IF Head(ls) = <<>> THEN FilterBoolean(Tail(ls))
    ELSE <<Head(ls)>> \o FilterBoolean(Tail(ls))

\* content.trim().split("\n").filter(Boolean).map(JSON.parse): the entries,
\* or a throw when a line does not parse.
ParseLines(content) ==
    LET kept == FilterBoolean(Split(Trim(content)))
    IN  IF \E i \in 1..Len(kept) : ~JsonParse(kept[i]).ok
        THEN [threw |-> TRUE, entries |-> <<>>]
        ELSE [threw |-> FALSE, entries |-> [i \in 1..Len(kept) |-> JsonParse(kept[i]).value]]

LoadCliUnguarded(file) ==
    IF ~file.exists THEN [threw |-> TRUE, entries |-> <<>>] ELSE ParseLines(file.content)

\* The transcript block of hook in src/src/cli.ts: a missing file leaves the
\* transcript empty; a line that does not parse raises out of the block.
LoadCli(file) ==
    IF ~file.exists THEN [threw |-> FALSE, entries |-> <<>>] ELSE ParseLines(file.content)

RECURSIVE ParsedOnly(_)
ParsedOnly(ls) ==
    IF ls = <<>> THEN <<>>
    ELSE IF JsonParse(Head(ls)).ok
         THEN <<JsonParse(Head(ls)).value>> \o ParsedOnly(Tail(ls))
         ELSE ParsedOnly(Tail(ls))

parseTranscriptSkipping(file) ==
    IF ~file.exists THEN <<>>
    ELSE ParsedOnly(FilterBoolean(Split(Trim(file.content))))

\* parseTranscript of src/src/hook.ts: never raises.
parseTranscript(file) ==
    IF ~file.exists THEN <<>>
    ELSE IF ParseLines(file.content).threw THEN <<>>
    ELSE ParseLines(file.content).entries

MissingFile == [exists |-> FALSE, content |-> <<>>]

\* One well-formed line followed by a newline.
GoodFile == [exists |-> TRUE, content |-> <<"1", "\n">>]

\* The transcript files the hook runs are tried with: none, one well-formed
\* line, and a well-formed line followed by one that does not parse.
Files == {MissingFile, GoodFile, [exists |-> TRUE, content |-> <<"1", "\n", "x">>]}

\* What the host tool writes on stdin: unparseable text, or a JSON object
\* whose session_id is absent, empty or set.
Stdins ==
    {[parses |-> FALSE, sid |-> Undefined]}
        \cup {[parses |-> TRUE, sid |-> s] : s \in {Undefined, "", "s1"}}

\* The inputs of one hook run: the marker file (read by cli only), stdin,
\* the transcript file, and for hook_ts whether CLAUDE_TRANSCRIPT_API_URL
\* and CLAUDE_TRANSCRIPT_API_KEY are configured.  Every file is tried with
\* session s1, the other stdin texts with a missing file, and a configured
\* key with the well-formed file.
HookInputs(hv) ==
    {x \in [marker : (IF hv = "cli" THEN BOOLEAN ELSE {TRUE}),
            stdin : Stdins,
            file : Files,
            urlEnv : (IF hv = "hook_ts" THEN {Undefined, "u"} ELSE {Undefined}),
            urlFile : (IF hv = "hook_ts" THEN {Undefined, "", "u"} ELSE {Undefined}),
            key : (IF hv = "hook_ts" THEN {Undefined, ExpectedKey} ELSE {Undefined})] :
        /\ x.urlEnv = "u" => x.urlFile = Undefined
        /\ x.file.exists => x.stdin.sid = "s1"
        /\ x.key # Undefined => (x.stdin.sid = "s1" /\ x.file = GoodFile)}

PayloadStringKeys ==
    {"session_id", "tool_use_id", "tool_name", "cwd", "hook_event", "reason"}

\* The payload object of src/src/cli.ts, as JSON.stringify sends it.
CliPayload(sid, transcript) ==
    Stringify([session_id |-> sid, transcript |-> transcript, reason |-> "clear"],
              PayloadStringKeys)

\* The payload object of src/src/hook.ts, as JSON.stringify sends it.
HookTsPayload(sid, transcript) ==
    Stringify([session_id |-> sid, tool_use_id |-> "t1", tool_name |-> "Bash",
               tool_input |-> <<>>, cwd |-> "/p", transcript |-> transcript,
               hook_event |-> "PostToolUse"], PayloadStringKeys)

\* The POST as it reaches the endpoint.
HookRequest(key, payload) == Request("POST", key, ObjBody(payload), DefaultAddress)

\* A hook process.  stdinRead, fileRead, loaded and posts record what the
\* run has done; wire is the state of its POST on the network; log is the set of
\* outcome records it wrote (hook.log for cli, stderr for hook_ts); lost
\* records that an append to hook.log failed and was swallowed.
IdleHook ==
    [pc |-> "idle", variant |-> "none", marker |-> TRUE,
     stdinRead |-> FALSE, fileRead |-> FALSE, loaded |-> "none", posts |-> 0,
     wire |-> "none", msg |-> NoInput, fetch |-> "none", timers |-> {},
     log |-> {}, lost |-> FALSE, exit |-> -1, unhandled |-> FALSE,
     urlEnv |-> Undefined, urlFile |-> Undefined]

\* log(level, message, data) of src/src/cli.ts: the append is attempted and
\* its failure (writes = FALSE) is swallowed.
Log(h, tag, writes) ==
    IF writes THEN [h EXCEPT !.log = @ \cup {tag}] ELSE [h EXCEPT !.lost = TRUE]

\* console.error of src/src/hook.ts.
Stderr(h, tag) == [h EXCEPT !.log = @ \cup {tag}]

\* The status the process ends with: a rejection nobody handled ends it
\* with 1 whatever process.exit would have been given.
ExitCode(h, code) == IF h.unhandled THEN 1 ELSE code

\* process.exit(code): pending timers and the pending fetch continuation die
\* with the process.
Exit(h, code) ==
    [h EXCEPT !.pc = "exited", !.exit = ExitCode(h, code), !.timers = {},
              !.fetch = IF @ = "pending" THEN "dropped" ELSE @]

\* fetch(API_URL, {method: "POST", ...}) is called.
Post(h, in) ==
    [h EXCEPT !.posts = @ + 1, !.wire = "sent", !.msg = in, !.fetch = "pending"]

GateOpen(marker) == TRUE

\* The enable gate: the marker file exists.
GatePasses(marker) == marker

\* catch (err) { log("ERROR", "Hook error", ...) } and the process.exit(0)
\* that follows the try statement.
CliCatchCrash(h, lw) == Exit(Log(h, "hook_error", lw), 1)

CliCatch(h, lw) == Exit(Log(h, "hook_error", lw), 0)

\* What the run found at the transcript path.
LoadOutcome(file) ==
    IF ~file.exists THEN "missing"
    ELSE IF ParseLines(file.content).threw THEN "threw" ELSE "entries"

\* hook of src/src/cli.ts up to `await fetch`.
CliRun(h0, i, lw) ==
    LET h1 == [h0 EXCEPT !.variant = "cli", !.marker = i.marker]
    IN  IF ~GatePasses(i.marker)
        THEN Exit(Log(h1, "skipped", lw), 0)
        ELSE LET h2 == [h1 EXCEPT !.stdinRead = TRUE]
                 ld == LoadCli(i.file)
                 h3 == [h2 EXCEPT !.fileRead = i.file.exists,
                                  !.loaded = LoadOutcome(i.file)]
             IN  IF ~i.stdin.parses
                 THEN CliCatch(h2, lw)
                 ELSE IF ld.threw
                 THEN CliCatch(h3, lw)
                 ELSE [Post(h3, HookRequest(Undefined, CliPayload(i.stdin.sid, ld.entries)))
                          EXCEPT !.pc = "awaitFetch"]

\* API_URL of src/src/hook.ts: the environment variable, else "", replaced
\* by the value of the .env file's CLAUDE_TRANSCRIPT_API_URL line (Undefined:
\* no file or no such line) when it is still empty.
ApiUrl(envVar, dotEnv) ==
    LET fromEnv == OrElse(envVar, "")
    IN  IF dotEnv # Undefined /\ Falsy(fromEnv) THEN dotEnv ELSE fromEnv

uploadToAPIAlways(h, i, payload) ==
    [Post(h, HookRequest(i.key, payload))
        EXCEPT !.timers = @ \cup {[kind |-> "abort", at |-> AbortMs]}]

\* uploadToAPI of src/src/hook.ts: nothing is sent without a URL; else the
\* abort timer is armed and fetch is called with .then and .catch attached.
uploadToAPI(h, i, payload) ==
    IF Falsy(ApiUrl(i.urlEnv, i.urlFile))
    THEN Stderr(h, "not_configured")
    ELSE [Post(h, HookRequest(i.key, payload))
             EXCEPT !.timers = @ \cup {[kind |-> "abort", at |-> AbortMs]}]

\* main of src/src/hook.ts up to the grace timer.
HookTsRun(h0, i) ==
    LET h1 == [h0 EXCEPT !.variant = "hook_ts", !.stdinRead = TRUE,
                         !.urlEnv = i.urlEnv, !.urlFile = i.urlFile]
    IN  IF ~i.stdin.parses
        THEN Exit(Stderr(h1, "hook_error"), 0)
        ELSE LET h2 == [h1 EXCEPT !.fileRead = i.file.exists,
                                  !.loaded = LoadOutcome(i.file)]
                 h3 == uploadToAPI(h2, i, HookTsPayload(i.stdin.sid, parseTranscript(i.file)))
             IN  [h3 EXCEPT !.pc = "grace",
                            !.timers = @ \cup {[kind |-> "grace", at |-> GraceMs]}]

\* Slots are taken in order.
NextFree(r) ==
    /\ req[r].pc = "idle" /\ hook[r].pc = "idle"
    /\ \A s \in Slots : s < r => (req[s].pc # "idle" \/ hook[s].pc # "idle")

\* One hook process starts and runs to its first suspension.
HookRun(r) ==
    /\ NextFree(r)
    /\ Cardinality({s \in Slots : hook[s].pc # "idle"}) < MaxHooks
    /\ \E hv \in HookVariants : \E i \in HookInputs(hv) : \E lw \in BOOLEAN :
          hook' = [hook EXCEPT ![r] =
                      IF hv = "cli" THEN CliRun(hook[r], i, lw) ELSE HookTsRun(hook[r], i)]
    /\ UNCHANGED <<variant, env, cachedClient, clients, connectCalls, clock, req, coll,
                   bucket, loader, inst>>

\* The POST of slot r's hook reaches the endpoint; the process that sent it
\* may be gone by then.
HookDeliver(r) ==
    /\ hook[r].wire = "sent"
    /\ Arrive(r, hook[r].msg, "hook")
    /\ hook' = [hook EXCEPT ![r].wire = "delivered"]

LatestTimer(ts) == CHOOSE t \in ts : \A u \in ts : t.at >= u.at

\* The timer with the earliest deadline is the next to fire.
EarliestTimer(ts) == CHOOSE t \in ts : \A u \in ts : t.at <= u.at

\* .catch((err) => {...}) of uploadToAPI: an abort is not reported.
OnRejected(h, name) ==
    LET h1 == [h EXCEPT !.timers = {t \in @ : t.kind # "abort"}]
    IN  IF name # "AbortError" THEN Stderr(h1, "upload_failed") ELSE h1

\* fetch(...).then(...).catch(...): the chain ends in a rejection handler.
CatchAttached == TRUE

\* The promise of fetch rejects: the handler runs, or, with none attached,
\* the rejection is unhandled and ends the process.
Rejection(h, name) ==
    IF CatchAttached THEN OnRejected(h, name)
    ELSE Exit([h EXCEPT !.unhandled = TRUE], 1)

\* .then((res) => {...}) of uploadToAPI: only a non-2xx status is reported.
OnResolved(h, ok) ==
    LET h1 == [h EXCEPT !.timers = {t \in @ : t.kind # "abort"}]
    IN  IF ~ok THEN Stderr(h1, "api_error") ELSE h1

\* A timer of slot r's hook process fires: the grace timer resumes main at
\* process.exit(0); the abort timer aborts the request, whose promise
\* rejects with AbortError.
HookTimer(r) ==
    /\ hook[r].pc = "grace"
    /\ hook[r].timers # {}
    /\ LET t == EarliestTimer(hook[r].timers)
       IN  hook' = [hook EXCEPT ![r] =
                       IF t.kind = "grace" THEN Exit(hook[r], 0)
                       ELSE IF hook[r].fetch = "pending"
                       THEN Rejection([hook[r] EXCEPT !.fetch = "aborted"], "AbortError")
                       ELSE [hook[r] EXCEPT !.timers = @ \ {t}]]
    /\ UNCHANGED <<variant, env, cachedClient, clients, connectCalls, clock, req, coll,
                   bucket, loader, inst>>

\* response.ok
Ok2xx(status) == status >= 200 /\ status <= 299

\* The endpoint's answer reaches a hook process that is still alive.
HookResponse(r) ==
    /\ hook[r].pc \in {"awaitFetch", "grace"}
    /\ hook[r].fetch = "pending"
    /\ req[r].pc = "done"
    /\ \E lw \in BOOLEAN :
         LET h == [hook[r] EXCEPT !.fetch = "resolved"]
         IN  hook' = [hook EXCEPT ![r] =
                         IF h.variant = "cli"
                         THEN Exit(Log(h, IF Ok2xx(req[r].status) THEN "success"
                                          ELSE "upload_failed", lw), 0)
                         ELSE OnResolved(h, Ok2xx(req[r].status))]
    /\ UNCHANGED <<variant, env, cachedClient, clients, connectCalls, clock, req, coll,
                   bucket, loader, inst>>

\* fetch rejects with a network error in a hook process that is still alive.
HookNetError(r) ==
    /\ hook[r].pc \in {"awaitFetch", "grace"}
    /\ hook[r].fetch = "pending"
    /\ \E lw \in BOOLEAN :
         LET h == [hook[r] EXCEPT !.fetch = "rejected"]
         IN  hook' = [hook EXCEPT ![r] =
                         IF h.variant = "cli" THEN CliCatch(h, lw)
                         ELSE Rejection(h, "TypeError")]
    /\ UNCHANGED <<variant, env, cachedClient, clients, connectCalls, clock, req, coll,
                   bucket, loader, inst>>

\* A request from an arbitrary HTTP client.
DirectPost(r) ==
    /\ NextFree(r)
    /\ \E in \in DirectInputs(variant) : Arrive(r, in, "direct")
    /\ UNCHANGED hook

\* getMongoClient and getS3Client read process.env at every call: the
\* connection setting that was present at one call is gone at a later one.
EnvRemoved ==
    /\ IF IsBlob(variant)
       THEN env.aws /\ env' = [env EXCEPT !.aws = FALSE]
       ELSE env.uri /\ env' = [env EXCEPT !.uri = FALSE]
    /\ UNCHANGED <<variant, cachedClient, clients, connectCalls, clock, req, coll, bucket,
                   hook, loader, inst>>

\* process.env of the deployment.  A setting a revision never reads is
\* left set.
Envs(v) ==
    {[uri |-> u, aws |-> a, bucketVar |-> b, apiKey |-> k] :
        u \in (IF IsBlob(v) THEN {TRUE} ELSE BOOLEAN),
        a \in (IF IsBlob(v) THEN BOOLEAN ELSE {TRUE}),
        b \in (IF IsBlob(v) THEN BOOLEAN ELSE {TRUE}),
        k \in (IF HasAuth(v) THEN BOOLEAN ELSE {FALSE})}

\* The loader before it is called on `file`.
LoaderAt(file) ==
    [pc |-> "start", by |-> "none", file |-> file, threw |-> FALSE, entries |-> <<>>]

IdleLoader == LoaderAt(MissingFile)

\* ------------------------------------------------------------------------
\* install of src/src/cli.ts and ~/.claude/settings.json
\* ------------------------------------------------------------------------

\* Runs of install in one behaviour.
MaxRuns == 3

\* A command text is a sequence of pieces; "claude-hook" is one piece.
\* BINARY_PATH = join(INSTALL_DIR, "claude-hook")
BINARY_PATH == <<"/d/claude-transcript-hook/", "claude-hook">>

\* A hook of an entry: null, or an object whose command is absent, a string
\* (its pieces in words) or a number.
MkHook(kind, ckind, words, timeout) ==
    [kind |-> kind, type |-> "command", ckind |-> ckind, words |-> words,
     timeout |-> timeout]

\* An entry of SessionEnd: null, or an object whose hooks is absent, an array
\* (hitems) or an object that is no array.
MkEntry(kind, hkind, hitems) == [kind |-> kind, hkind |-> hkind, hitems |-> hitems]

\* { hooks: [{ type: "command", command: `${BINARY_PATH} hook`, timeout: 5 }] }
NewEntry ==
    MkEntry("object", "array", <<MkHook("object", "string", BINARY_PATH \o <<" hook">>, 5)>>)

\* command.includes(word)
Includes(words, word) == \E i \in 1..Len(words) : words[i] = word

\* hook?.command?.includes("claude-hook"): "throw" when command is neither
\* absent nor a string (includes is then not a function).
HookTest(h) ==
    IF h.kind = "null" \/ h.ckind = "absent" THEN "false"
    ELSE IF h.ckind # "string" THEN "throw"
    ELSE IF Includes(h.words, "claude-hook") THEN "true" ELSE "false"

\* Array.prototype.some over the hooks of an entry, left to right, stopping
\* at the first match.
RECURSIVE SomeHook(_)
SomeHook(hs) ==
    IF hs = <<>> THEN "false"
    ELSE IF HookTest(Head(hs)) = "false" THEN SomeHook(Tail(hs))
    ELSE HookTest(Head(hs))

\* h?.hooks?.some(...): "throw" when hooks is present and no array.
EntryTest(h) ==
    IF h.kind = "null" \/ h.hkind = "absent" THEN "false"
    ELSE IF h.hkind # "array" THEN "throw"
    ELSE SomeHook(h.hitems)

AlreadyInstalledNever(items) == "false"

\* alreadyInstalled = sessionEnd.some(...)
RECURSIVE AlreadyInstalled(_)
AlreadyInstalled(items) ==
    IF items = <<>> THEN "false"
    ELSE IF EntryTest(Head(items)) = "false" THEN AlreadyInstalled(Tail(items))
    ELSE EntryTest(Head(items))

\* The value of hooks.SessionEnd: absent, null, a string, or an array.
MkSessionEnd(kind, items) == [kind |-> kind, items |-> items]

\* The value of settings.hooks: absent, null, a string, or an object with
\* its other events (other) and SessionEnd.
MkHooks(kind, other, sessionEnd) ==
    [kind |-> kind, other |-> other, SessionEnd |-> sessionEnd]

NoHooks == MkHooks("absent", {}, MkSessionEnd("absent", <<>>))

\* settings.json: missing, not parseable ("garbage"), or JSON text whose
\* value is null, a number, an array or an object with its other keys
\* (other) and hooks.  Values are kept as JSON.parse returns them.
MkSettings(kind, other, hooks) == [kind |-> kind, other |-> other, hooks |-> hooks]

MissingSettings == MkSettings("missing", {}, NoHooks)

\* The outcome of one run: the file afterwards, whether install raised, and
\* whether it wrote the file.
Ran(file, threw, wrote) == [file |-> file, threw |-> threw, wrote |-> wrote]

\* install, from `let settings = {}` to the writeFileSync.  A TypeError
\* leaves the file as it was.
install(file) ==
    LET settings == IF file.kind \in {"missing", "garbage"}
                    THEN MkSettings("object", {}, NoHooks) ELSE file
        hooks == IF settings.kind # "object" \/ settings.hooks.kind \in {"absent", "null"}
                 THEN MkHooks("object", {}, MkSessionEnd("absent", <<>>))
                 ELSE settings.hooks
        sessionEnd == IF hooks.kind # "object" \/ hooks.SessionEnd.kind \in {"absent", "null"}
                      THEN MkSessionEnd("array", <<>>)
                      ELSE hooks.SessionEnd
        pushed == MkSessionEnd("array", Append(sessionEnd.items, NewEntry))
    IN  IF settings.kind = "null" THEN Ran(file, TRUE, FALSE)
        ELSE IF sessionEnd.kind # "array" THEN Ran(file, TRUE, FALSE)
        ELSE IF AlreadyInstalled(sessionEnd.items) = "throw" THEN Ran(file, TRUE, FALSE)
        ELSE IF AlreadyInstalled(sessionEnd.items) = "true" THEN Ran(file, FALSE, FALSE)
        ELSE IF hooks.kind # "object" THEN Ran(file, TRUE, FALSE)
        ELSE IF settings.kind = "number" THEN Ran(file, TRUE, FALSE)
        ELSE IF settings.kind = "array" THEN Ran(settings, FALSE, TRUE)
        ELSE Ran([settings EXCEPT !.hooks = [hooks EXCEPT !.SessionEnd = pushed]],
                 FALSE, TRUE)

\* The settings file, the file before the first run, the backup copy, the
\* runs made, and whether the last run raised.
InstAt(file) ==
    [file |-> file, original |-> file, backup |-> MissingSettings, runs |-> 0,
     threw |-> FALSE]

IdleInst == InstAt(MissingSettings)

Init ==
    /\ variant \in Variants
    /\ env \in Envs(variant)
    /\ cachedClient = 0
    /\ clients = <<>>
    /\ connectCalls = 0
    /\ clock = 1
    /\ req = [r \in Slots |-> IdleReq]
    /\ coll = <<>>
    /\ bucket = {}
    /\ hook = [r \in Slots |-> IdleHook]
    /\ loader = IdleLoader
    /\ inst = IdleInst

Next ==
    \/ \E r \in Slots : DirectPost(r)
    \/ \E r \in Slots : HookRun(r)
    \/ \E r \in Slots : HookDeliver(r)
    \/ \E r \in Slots : HookTimer(r)
    \/ \E r \in Slots : HookResponse(r)
    \/ \E r \in Slots : HookNetError(r)
    \/ \E c \in 1..MaxReq, ok \in BOOLEAN : ConnectSettle(c, ok)
    \/ \E r \in Slots, ok \in BOOLEAN : BackendWrite(r, ok)
    \/ \E r \in Slots : HandlerResume(r)
    \/ EnvRemoved

Spec == Init /\ [][Next]_vars

\* ------------------------------------------------------------------------
\* The transcript loader on its own
\* ------------------------------------------------------------------------

\* Every file text of at most MaxChars characters.
Contents == UNION {[1..n -> Chars] : n \in 0..MaxChars}

LoaderFiles == {MissingFile} \cup {[exists |-> TRUE, content |-> c] : c \in Contents}

LoaderInit ==
    /\ variant = "upload"
    /\ env = [uri |-> TRUE, aws |-> TRUE, bucketVar |-> TRUE, apiKey |-> FALSE]
    /\ cachedClient = 0
    /\ clients = <<>>
    /\ connectCalls = 0
    /\ clock = 1
    /\ req = [r \in Slots |-> IdleReq]
    /\ coll = <<>>
    /\ bucket = {}
    /\ hook = [r \in Slots |-> IdleHook]
    /\ loader \in {LoaderAt(f) : f \in LoaderFiles}
    /\ inst = IdleInst

\* The transcript block of hook in src/src/cli.ts runs on the file.
LoadByCli ==
    /\ loader.pc = "start"
    /\ loader' = [loader EXCEPT !.pc = "done", !.by = "cli",
                                !.threw = LoadCli(loader.file).threw,
                                !.entries = LoadCli(loader.file).entries]
    /\ UNCHANGED <<variant, env, cachedClient, clients, connectCalls, clock, req, coll,
                   bucket, hook, inst>>

\* parseTranscript of src/src/hook.ts runs on the file.
LoadByHookTs ==
    /\ loader.pc = "start"
    /\ loader' = [loader EXCEPT !.pc = "done", !.by = "hook_ts",
                                !.entries = parseTranscript(loader.file)]
    /\ UNCHANGED <<variant, env, cachedClient, clients, connectCalls, clock, req, coll,
                   bucket, hook, inst>>

LoaderNext == LoadByCli \/ LoadByHookTs

LoaderSpec == LoaderInit /\ [][LoaderNext]_vars

\* ------------------------------------------------------------------------
\* install on its own
\* ------------------------------------------------------------------------

\* Entries a settings file may hold before the first run: this hook at the
\* present and at an older path, another command, an entry without hooks,
\* a null entry, a hook with a numeric command, and hooks that is no array.
Entries ==
    {NewEntry,
     MkEntry("object", "array",
             <<MkHook("object", "string", <<"/old/", "claude-hook", " hook">>, 0)>>),
     MkEntry("object", "array", <<MkHook("object", "string", <<"echo">>, 0)>>),
     MkEntry("object", "absent", <<>>),
     MkEntry("null", "absent", <<>>),
     MkEntry("object", "array", <<MkHook("object", "number", <<>>, 0)>>),
     MkEntry("object", "object", <<>>)}

\* Longest SessionEnd list before the first run.
MaxEntries == 2

SessionEnds ==
    {MkSessionEnd(k, <<>>) : k \in {"absent", "null", "string"}}
        \cup {MkSessionEnd("array", items) :
                 items \in UNION {[1..n -> Entries] : n \in 0..MaxEntries}}

HooksValues ==
    {MkHooks(k, {}, MkSessionEnd("absent", <<>>)) : k \in {"absent", "null", "string"}}
        \cup {MkHooks("object", other, se) :
                 other \in {{}, {"PreToolUse"}}, se \in SessionEnds}

SettingsFiles ==
    {MkSettings(k, {}, NoHooks) : k \in {"missing", "garbage", "null", "number", "array"}}
        \cup {MkSettings("object", other, h) : other \in {{}, {"theme"}}, h \in HooksValues}

InstallInit ==
    /\ variant = "upload"
    /\ env = [uri |-> TRUE, aws |-> TRUE, bucketVar |-> TRUE, apiKey |-> FALSE]
    /\ cachedClient = 0
    /\ clients = <<>>
    /\ connectCalls = 0
    /\ clock = 1
    /\ req = [r \in Slots |-> IdleReq]
    /\ coll = <<>>
    /\ bucket = {}
    /\ hook = [r \in Slots |-> IdleHook]
    /\ loader = IdleLoader
    /\ inst \in {InstAt(f) : f \in SettingsFiles}

\* One run of install: the backup copy of an existing file, then the patch.
InstallRun ==
    /\ inst.runs < MaxRuns
    /\ inst' = [inst EXCEPT !.file = install(inst.file).file,
                            !.backup = IF inst.file.kind = "missing" THEN @ ELSE inst.file,
                            !.threw = install(inst.file).threw,
                            !.runs = @ + 1]
    /\ UNCHANGED <<variant, env, cachedClient, clients, connectCalls, clock, req, coll,
                   bucket, hook, loader>>

InstallNext == InstallRun

InstallSpec == InstallInit /\ [][InstallNext]_vars

\* ------------------------------------------------------------------------
\* Properties
\* ------------------------------------------------------------------------

\* The handler has been invoked for slot r.
Arrived(r) == req[r].in.method # "NONE"

SessionIdOf(r) == Get(req[r].in.body.obj, "session_id")

\* A POST whose body is a JSON object without a usable session_id.
MissingSessionId(r) ==
    /\ req[r].in.method = "POST"
    /\ req[r].in.body.kind = "object"
    /\ SessionIdOf(r) \in {Undefined, ""}

\* The request is not stopped by the x-api-key gate.
PassesAuth(r) == ~(HasAuth(variant) /\ env.apiKey /\ req[r].in.key # ExpectedKey)

Rejected400Untouched(r) ==
    /\ req[r].pc = "done" /\ req[r].status = 400 /\ req[r].nresp = 1
    /\ req[r].connects = 0 /\ req[r].writes = 0 /\ req[r].handle = 0

\* C1 as claimed: every POST whose JSON object payload has session_id absent
\* or empty is answered 400 by every revision, with no connection attempt
\* and no insert/put.
C1_MissingSessionIdAnswered400 ==
    \A r \in Slots : MissingSessionId(r) => Rejected400Untouched(r)

\* C1 amended: every POST whose JSON object payload has session_id absent or
\* empty, and which the x-api-key gate of src/api/upload.ts does not stop
\* first, is answered 400 with no connection attempt and no insert/put,
\* whatever its other fields and whatever the connection cache holds.
C1_MissingSessionIdAfterAuth ==
    \A r \in Slots : (MissingSessionId(r) /\ PassesAuth(r)) => Rejected400Untouched(r)

\* C1 witness: an empty session_id, sent with the other fields present, is
\* answered 400 while the cache already holds a handle.
C1_Witness ==
    \E r \in Slots :
        /\ MissingSessionId(r) /\ PassesAuth(r)
        /\ SessionIdOf(r) = ""
        /\ req[r].status = 400
        /\ cachedClient # 0

\* C2: in one process at most one backend client is constructed and
\* connect() is called at most once, for any number of requests and any
\* interleaving.
C2_SingleClient == Len(clients) <= 1 /\ connectCalls <= 1

\* C2 witness: a second request obtained a handle while the first request,
\* which constructed the client, is still awaiting connect().
C2_Witness ==
    \E r1, r2 \in Slots :
        /\ r1 # r2
        /\ req[r1].pc = "connecting"
        /\ req[r2].handle = req[r1].handle
        /\ req[r2].writes = 1

\* C3: every handle getMongoClient returns to a caller has completed
\* connect() successfully at the moment it is returned.
C3_ReturnedHandleReady ==
    \A r \in Slots : (~IsBlob(variant) /\ req[r].writes > 0) => req[r].ready

\* The grace timer of slot r's hook process is armed.
GraceArmed(r) == \E t \in hook[r].timers : t.kind = "grace"

\* C4: in cli.ts and hook.ts alike, a hook process that has initiated its
\* POST waits for the grace timer only, never for the response, so that it
\* exits even when the server never answers.
C4_WaitsForGraceOnly ==
    \A r \in Slots :
        (hook[r].posts > 0 /\ hook[r].pc # "exited")
            => (hook[r].pc = "grace" /\ GraceArmed(r))

\* C5: every hook process that has terminated exited with code 0.
C5_ExitsZero == \A r \in Slots : hook[r].pc = "exited" => hook[r].exit = 0

\* C5 witness: a cli.ts hook ended by a network error whose log write failed
\* too, and a hook somewhere ended on unparseable stdin or a bad transcript.
C5_Witness ==
    \E r \in Slots :
        /\ hook[r].pc = "exited"
        /\ hook[r].variant = "cli"
        /\ hook[r].fetch = "rejected"
        /\ hook[r].log = {}

\* C6: with the enable marker absent, the session-end hook of cli.ts ends
\* without any network request and without having read stdin or the
\* transcript file.
C6_NoMarkerNoRequest ==
    \A r \in Slots :
        (hook[r].variant = "cli" /\ ~hook[r].marker)
            => /\ hook[r].pc = "exited"
               /\ hook[r].posts = 0 /\ hook[r].wire = "none"
               /\ ~hook[r].stdinRead /\ ~hook[r].fileRead
               /\ ~Arrived(r)

\* C6 witness: a cli.ts hook has run with the marker absent.
C6_Witness ==
    \E r \in Slots : hook[r].variant = "cli" /\ ~hook[r].marker /\ hook[r].pc = "exited"

\* The record the document store holds for request r.
RecordOf(r) == coll[req[r].id]

\* C7: a payload {session_id, transcript, reason} assembled by the cli.ts
\* hook with a non-empty session_id is accepted by src/api/upload.ts when the
\* backend is reachable (no secret configured, connection settings present,
\* nothing failed with 500): one document with those fields plus uploaded_at
\* and client_ip is stored and the answer is 200.
C7_CliPayloadAccepted ==
    \A r \in Slots :
        (/\ variant = "upload" /\ ~env.apiKey /\ env.uri
         /\ hook[r].variant = "cli"
         /\ req[r].origin = "hook" /\ req[r].pc = "done"
         /\ SessionIdOf(r) \notin {Undefined, ""}
         /\ req[r].status # 500)
            => /\ req[r].status = 200
               /\ req[r].id \in 1..Len(coll)
               /\ DOMAIN RecordOf(r) =
                    {"session_id", "transcript", "reason", "uploaded_at", "client_ip", "_id"}

\* What the store must hold for request r: the payload's fields unchanged,
\* and the server's own uploaded_at and client_ip.
ExpectedDocument(r) ==
    LET p == req[r].in.body.obj
    IN  [k \in DOMAIN p \cup {"uploaded_at", "client_ip"} |->
            IF k = "uploaded_at" THEN req[r].builtAt
            ELSE IF k = "client_ip" THEN ClientIp(variant, req[r].in)
            ELSE p[k]]

\* C8: every stored document carries the uploaded_at and client_ip the
\* handler computed for its request, also when the client payload supplied
\* its own, and every other payload field unchanged.
C8_ServerFieldsWin ==
    /\ \A r \in Slots :
          (~IsBlob(variant) /\ req[r].wrote)
              => /\ req[r].id \in 1..Len(coll)
                 /\ DOMAIN RecordOf(r) = DOMAIN ExpectedDocument(r) \cup {"_id"}
                 /\ \A k \in DOMAIN ExpectedDocument(r) : RecordOf(r)[k] = ExpectedDocument(r)[k]
    /\ \A o \in bucket :
          \E r \in Slots : req[r].wrote /\ req[r].key = o.key /\ o.body = ExpectedDocument(r)

\* C8 witness: a document is stored for a payload that carried its own
\* uploaded_at and client_ip.
C8_Witness ==
    \E r \in Slots :
        /\ req[r].wrote
        /\ "client_ip" \in DOMAIN req[r].in.body.obj
        /\ "uploaded_at" \in DOMAIN req[r].in.body.obj

\* A POST answered 200.
Accepted(r) == req[r].in.method = "POST" /\ req[r].status = 200

\* No request is in progress.
Quiet == \A r \in Slots : req[r].pc \in {"idle", "done"}

\* Request r is the later one of the accepted requests of its session: each
\* other one had been answered when r arrived.
LatestOfSession(r) ==
    /\ Accepted(r)
    /\ \A s \in Slots \ {r} :
          (Accepted(s) /\ SessionIdOf(s) = SessionIdOf(r)) => s \in req[r].seen

\* C9: after any sequence of accepted requests the blob store holds exactly
\* one object per distinct session_id, at transcripts/<session_id>.json, with
\* the later request's document when requests of one session were made in
\* sequence; the document store holds one distinct record per request.
C9_OverwriteVersusAppend ==
    Quiet =>
        IF IsBlob(variant)
        THEN /\ {o.key : o \in bucket} = {S3Key(SessionIdOf(r)) : r \in {s \in Slots : Accepted(s)}}
             /\ Cardinality(bucket) = Cardinality({SessionIdOf(r) : r \in {s \in Slots : Accepted(s)}})
             /\ \A r \in Slots :
                   LatestOfSession(r)
                       => [key |-> S3Key(SessionIdOf(r)), body |-> req[r].doc] \in bucket
        ELSE /\ Len(coll) = Cardinality({r \in Slots : Accepted(r)})
             /\ \A i, j \in 1..Len(coll) : i # j => coll[i]["_id"] # coll[j]["_id"]
             /\ \A r \in Slots : Accepted(r) => RecordOf(r)["_id"] = req[r].id

\* C9 witness: two requests of one session, the second made after the first
\* was answered, both accepted by the blob-store revision.
C9_Witness ==
    \E r1, r2 \in Slots :
        /\ IsBlob(variant) /\ Quiet
        /\ r1 # r2 /\ Accepted(r1) /\ Accepted(r2)
        /\ SessionIdOf(r1) = SessionIdOf(r2)
        /\ r1 \in req[r2].seen

\* The hook.ts dispatch of slot r got neither an answer nor a network error.
ServerSilent(r) ==
    /\ hook[r].variant = "hook_ts" /\ hook[r].posts > 0
    /\ hook[r].fetch \notin {"resolved", "rejected"}

\* C10 as claimed: when the server does not answer within the abort timeout,
\* the hook.ts dispatcher has aborted the request and logged the abort, with
\* no unhandled rejection and exit code 0.
C10_AbortLogged ==
    \A r \in Slots :
        (ServerSilent(r) /\ hook[r].pc = "exited")
            => /\ hook[r].fetch = "aborted"
               /\ "aborted" \in hook[r].log
               /\ ~hook[r].unhandled
               /\ hook[r].exit = 0

\* C10 amended: when the server does not answer, the hook.ts process exits 0
\* at the end of the 50 ms grace period, before the 4 s abort timer fires:
\* the request is never aborted by the dispatcher, nothing is logged about
\* the dispatch, and no unhandled rejection occurs.
C10_ExitsBeforeAbort ==
    \A r \in Slots :
        ServerSilent(r)
            => /\ hook[r].fetch # "aborted"
               /\ hook[r].log = {}
               /\ ~hook[r].unhandled
               /\ hook[r].pc = "exited" => (hook[r].exit = 0 /\ hook[r].fetch = "dropped")

\* C10 witness: a hook.ts process has exited while its request was still
\* unanswered by the endpoint.
C10_Witness ==
    \E r \in Slots :
        /\ ServerSilent(r) /\ hook[r].pc = "exited"
        /\ req[r].pc # "done"

\* Request r caused no backend work: no connect(), no insertOne/send, no handle.
Untouched(r) == req[r].connects = 0 /\ req[r].writes = 0 /\ req[r].handle = 0

\* C11: in src/api/upload.ts with API_KEY configured, every POST whose
\* x-api-key is absent or different is answered 401 with no connection
\* attempt and no insert; with no API_KEY configured no request is ever
\* answered 401.
C11_KeyGate ==
    variant = "upload" =>
        \A r \in Slots :
            /\ (env.apiKey /\ req[r].in.method = "POST" /\ req[r].in.key # ExpectedKey)
                  => /\ req[r].pc = "done" /\ req[r].status = 401 /\ req[r].nresp = 1
                     /\ req[r].error = "Unauthorized"
                     /\ Untouched(r)
            /\ ~env.apiKey => req[r].status # 401

\* C11 witness: with API_KEY configured, a complete payload sent without the
\* header was answered 401 while another one, with the header, was stored.
C11_Witness ==
    \E r1, r2 \in Slots :
        /\ variant = "upload" /\ env.apiKey
        /\ req[r1].in.method = "POST" /\ req[r1].in.key = Undefined
        /\ req[r1].in.body = ObjBody(MkPayload("s1", "t1", FALSE))
        /\ req[r1].status = 401
        /\ req[r2].status = 200

\* C12: a request whose method is neither POST nor, in the revisions that
\* answer the preflight, OPTIONS is answered 405; in those revisions OPTIONS
\* is answered 200 with an empty body; neither causes a connection attempt
\* or a write.
C12_MethodGate ==
    \A r \in Slots :
        (Arrived(r) /\ req[r].in.method # "POST")
            => /\ req[r].pc = "done" /\ req[r].nresp = 1 /\ Untouched(r)
               /\ IF HasCors(variant) /\ req[r].in.method = "OPTIONS"
                  THEN req[r].status = 200 /\ ~req[r].json
                  ELSE /\ req[r].status = 405 /\ req[r].json
                       /\ req[r].error = "Method not allowed"

\* C12 witness: a preflight answered 200 and a GET answered 405 by the same
\* revision.
C12_Witness ==
    \E r1, r2 \in Slots :
        /\ req[r1].in.method = "OPTIONS" /\ req[r1].status = 200
        /\ req[r2].in.method = "GET" /\ req[r2].status = 405

\* Longest sequence of lines a well-formed file is made of.
MaxLines == 3

\* The well-formed lines of at most two characters: every text without a
\* newline that JSON.parse accepts.
WellFormedLines ==
    {l \in UNION {[1..n -> Chars \ {"\n"}] : n \in 1..2} : JsonParse(l).ok}

RECURSIVE Join(_)
\* The lines written one after the other with a newline between them.
Join(ls) ==
    IF ls = <<>> THEN <<>>
    ELSE IF Len(ls) = 1 THEN ls[1]
    ELSE ls[1] \o <<"\n">> \o Join(Tail(ls))

\* The files made of N well-formed lines, N in 0..MaxLines, with or without
\* a newline after the last line.
WellFormedFiles ==
    {f \in {[lines |-> ls, content |-> Join(ls) \o tail] :
                ls \in UNION {[1..n -> WellFormedLines] : n \in 0..MaxLines},
                tail \in {<<>>, <<"\n">>}} :
        Len(f.content) <= MaxChars}

\* C13: for an existing file made of N well-formed newline-delimited JSON
\* lines the loader, in cli.ts and in hook.ts, returns exactly N entries, the
\* i-th being the parse of the i-th line, for every N >= 0.
C13_LoaderReturnsEveryLine ==
    \A f \in WellFormedFiles :
        (loader.pc = "done" /\ loader.file.exists /\ loader.file.content = f.content)
            => /\ ~loader.threw
               /\ Len(loader.entries) = Len(f.lines)
               /\ \A i \in 1..Len(f.lines) : loader.entries[i] = JsonParse(f.lines[i]).value

\* C13 witness: a file of three lines, the last one ended by a newline or
\* not, has been loaded into three entries that are not all equal.
C13_Witness ==
    /\ loader.pc = "done" /\ loader.file.exists
    /\ \E f \in WellFormedFiles : Len(f.lines) = 3 /\ f.content = loader.file.content
    /\ Len(loader.entries) = 3
    /\ loader.entries[1] # loader.entries[2]

\* The transcript of the payload slot r's hook handed to fetch.
PostedTranscript(r) == hook[r].msg.body.obj["transcript"]

\* C14: when the transcript path does not exist the loader yields the empty
\* sequence without raising, and the hook goes on to dispatch a payload whose
\* transcript is empty: cli.ts posts it; hook.ts hands it to uploadToAPI,
\* which posts it unless no destination URL is configured.
C14_MissingFileEmptyTranscript ==
    \A r \in Slots :
        hook[r].loaded = "missing"
            => \/ /\ hook[r].posts = 1
                  /\ PostedTranscript(r) = <<>>
               \/ /\ hook[r].variant = "hook_ts"
                  /\ hook[r].posts = 0
                  /\ "not_configured" \in hook[r].log

\* C14 witness: a cli.ts hook found no transcript file and its POST, with
\* the empty transcript, has reached the endpoint.
C14_Witness ==
    \E r \in Slots :
        /\ hook[r].variant = "cli" /\ hook[r].loaded = "missing"
        /\ hook[r].posts = 1
        /\ req[r].origin = "hook"
        /\ req[r].in.body.obj["transcript"] = <<>>

\* C15: no retry anywhere: a hook process issues at most one POST, a request
\* makes at most one connect() and at most one insertOne/send and gets one
\* response, whatever failed; so the store never holds more documents than
\* there are requests whose single write succeeded.
C15_NoRetry ==
    /\ \A r \in Slots :
          /\ hook[r].posts <= 1
          /\ req[r].connects <= 1 /\ req[r].writes <= 1 /\ req[r].nresp <= 1
    /\ connectCalls <= Cardinality({r \in Slots : req[r].connects = 1})
    /\ Len(coll) + Cardinality(bucket)
          <= Cardinality({r \in Slots : req[r].writes = 1 /\ req[r].wrote})

\* C15 witness: a cli.ts hook was answered 500 after its request's write was
\* rejected, and has exited with nothing stored.
C15_Witness ==
    \E r \in Slots :
        /\ hook[r].variant = "cli" /\ hook[r].pc = "exited" /\ hook[r].fetch = "resolved"
        /\ req[r].status = 500 /\ req[r].writes = 1 /\ ~req[r].wrote
        /\ coll = <<>> /\ bucket = {}

\* The request passed the method, auth and validation checks.
PassedChecks(r) == Arrived(r) /\ Early(variant, env, req[r].in).status = 0

\* C16: for a request that passed the method, auth and validation checks, a
\* failed configuration lookup, connect() or write gives exactly one response,
\* 500 with the fixed error text and the message of the error raised, and a
\* 200 is sent only when nothing failed.
C16_FailureIs500 ==
    \A r \in Slots :
        PassedChecks(r)
            => /\ req[r].nresp <= 1
               /\ req[r].thrown # ""
                     => /\ req[r].pc = "done" /\ req[r].nresp = 1 /\ req[r].json
                        /\ req[r].status = 500
                        /\ req[r].error = "Internal server error"
                        /\ req[r].message = req[r].thrown
               /\ (req[r].pc = "done" /\ ~req[r].wrote)
                     => /\ req[r].status = 500
                        /\ req[r].writes = 1 => req[r].message = "write rejected"
                        /\ (req[r].writes = 0 /\ req[r].connects = 1)
                              => req[r].message = "connect failed"
               /\ req[r].status = 200 => (req[r].wrote /\ req[r].thrown = "")

\* C16 witness: one request was answered 500 for its failed connect() and
\* another for its rejected write.
C16_Witness ==
    \E r1, r2 \in Slots :
        /\ req[r1].status = 500 /\ req[r1].message = "connect failed"
        /\ req[r2].status = 500 /\ req[r2].message = "write rejected"

\* The messages of the configuration errors.
ConfigErrors ==
    {"MONGODB_URI environment variable not set",
     "S3_BUCKET environment variable not set",
     "Missing required AWS environment variables"}

C18_SingleConfigReport ==
    cachedClient = 0
        => Cardinality({r \in Slots : req[r].thrown \in ConfigErrors}) <= 1

\* C19: in the document-store revisions no step changes or removes a record
\* already stored, a step adds at most one record, and a request is answered
\* 200 only with one record of its own, added by its single insert.
C19_AppendOnly ==
    [][/\ Len(coll') \in {Len(coll), Len(coll) + 1}
       /\ SubSeq(coll', 1, Len(coll)) = coll
       /\ \A r \in Slots :
             (~IsBlob(variant) /\ req[r].in.method = "POST"
                 /\ req[r].status # 200 /\ req'[r].status = 200)
                 => /\ req'[r].writes = 1
                    /\ req'[r].id \in 1..Len(coll')
                    /\ \A s \in Slots \ {r} : req'[s].id # req'[r].id]_vars

\* C19 witness: two requests of one session were both answered 200 and both
\* records are in the store.
C19_Witness ==
    \E r1, r2 \in Slots :
        /\ ~IsBlob(variant) /\ r1 # r2
        /\ Accepted(r1) /\ Accepted(r2)
        /\ SessionIdOf(r1) = SessionIdOf(r2)
        /\ Len(coll) = 2

\* C20: every document and every object in the store has a session_id that
\* is present and not empty.
C20_StoredSessionId ==
    /\ \A i \in 1..Len(coll) : Get(coll[i], "session_id") \notin {Undefined, ""}
    /\ \A o \in bucket : Get(o.body, "session_id") \notin {Undefined, ""}

\* C20 witness: a document is stored, and a hook whose stdin carried no
\* usable session_id had its POST answered 400.
C20_Witness ==
    \E r1, r2 \in Slots :
        /\ req[r1].wrote
        /\ req[r2].origin = "hook" /\ SessionIdOf(r2) \in {Undefined, ""}
        /\ req[r2].status = 400

\* C21 as claimed: when a line of an existing transcript file fails to
\* parse, the load yields the empty sequence and the hook, in cli.ts and in
\* hook.ts, goes on to dispatch a payload with that empty transcript.
C21_BadLineEmptyDispatch ==
    \A r \in Slots :
        hook[r].loaded = "threw"
            => \/ /\ hook[r].posts = 1
                  /\ PostedTranscript(r) = <<>>
               \/ /\ hook[r].variant = "hook_ts"
                  /\ hook[r].posts = 0
                  /\ "not_configured" \in hook[r].log

\* C21 amended: a line that fails to parse aborts the load as a whole, never
\* leaving the well-formed lines: in hook.ts parseTranscript yields the empty
\* sequence and the hook dispatches a payload with the empty transcript; in
\* cli.ts the error reaches the hook's catch, which sends nothing and exits 0.
C21_BadLineAbortsLoad ==
    \A r \in Slots :
        hook[r].loaded = "threw"
            => IF hook[r].variant = "cli"
               THEN /\ hook[r].pc = "exited" /\ hook[r].exit = 0
                    /\ hook[r].posts = 0 /\ hook[r].wire = "none" /\ ~Arrived(r)
                    /\ hook[r].log \subseteq {"hook_error"}
               ELSE \/ /\ hook[r].posts = 1
                       /\ PostedTranscript(r) = <<>>
                    \/ /\ hook[r].posts = 0
                       /\ "not_configured" \in hook[r].log

\* C21 witness: a hook.ts run met a file with a well-formed line and a bad
\* one, and its POST with the empty transcript has reached the endpoint.
C21_Witness ==
    \E r \in Slots :
        /\ hook[r].variant = "hook_ts" /\ hook[r].loaded = "threw"
        /\ hook[r].posts = 1
        /\ req[r].origin = "hook"
        /\ req[r].in.body.obj["transcript"] = <<>>

\* C22: a POST without a body (req.body undefined or null) is answered 400
\* as a payload without session_id, never 500, with no connection attempt
\* and no write.
C22_NoBodyIs400 ==
    \A r \in Slots :
        (req[r].in.method = "POST" /\ req[r].in.body.kind # "object" /\ PassesAuth(r))
            => /\ req[r].pc = "done" /\ req[r].status = 400
               /\ Untouched(r)

\* The address the claim expects in client_ip: the forwarding header, else
\* the socket's remote address, else the literal "unknown".
BestEffortAddress(in) ==
    IF in.xff \notin {Undefined, ""} THEN in.xff
    ELSE IF in.sock \notin {Undefined, ""} THEN in.sock
    ELSE "unknown"

\* C23: the client_ip of every stored document is the x-forwarded-for value
\* when non-empty, else the socket's remote address when available, else
\* "unknown"; it is never absent or undefined.
C23_ClientIpNeverAbsent ==
    \A r \in Slots :
        req[r].wrote
            => /\ "client_ip" \in DOMAIN req[r].doc
               /\ req[r].doc["client_ip"] = BestEffortAddress(req[r].in)
               /\ req[r].doc["client_ip"] # Undefined

\* C26: a handle stays in the connection cache only when its connect()
\* succeeded: after a failed connect() the cache is empty and the next
\* request makes a fresh connection attempt instead of receiving that handle.
C26_FailedHandleNotCached ==
    /\ \A c \in 1..Len(clients) : clients[c] = "failed" => cachedClient # c
    /\ \A r \in Slots :
          (req[r].handle # 0 /\ req[r].writes > 0) => clients[req[r].handle] # "failed"

\* The log records of the dispatch outcomes.
OutcomeTags == {"success", "upload_failed", "api_error", "hook_error", "aborted"}

\* C24: each dispatch outcome (success, non-2xx status, network error,
\* abort) whose continuation ran before the process exited produced a local
\* log record (unless the append itself failed, which log() swallows), and
\* none changed the exit code or raised out of the dispatcher.
C24_EveryOutcomeLogged ==
    \A r \in Slots :
        hook[r].fetch \in {"resolved", "rejected", "aborted"}
            => /\ hook[r].log \cap OutcomeTags # {} \/ hook[r].lost
               /\ ~hook[r].unhandled
               /\ hook[r].exit \in {-1, 0}

\* The hook process of slot r has exited without its POST having been
\* answered to it.
ExitedUnanswered(r) ==
    /\ hook[r].pc = "exited" /\ hook[r].posts = 1
    /\ hook[r].fetch = "dropped"

\* C25: the exit of the hook process does not cancel the server side: a step
\* in which the process exits changes nothing on the endpoint, and a request
\* whose client has exited unanswered can still have its write performed, or
\* rejected, by the backend.
C25_ExitDoesNotCancel ==
    \A r \in Slots :
        (ExitedUnanswered(r) /\ req[r].pc = "inserting")
            => /\ ENABLED BackendWrite(r, TRUE)
               /\ ENABLED BackendWrite(r, FALSE)

\* C25 witness: a document is stored, and answered 200, for a hook process
\* that exited without ever being answered.
C25_Witness ==
    \E r \in Slots :
        /\ ExitedUnanswered(r)
        /\ req[r].origin = "hook" /\ req[r].wrote /\ req[r].status = 200
        /\ Len(coll) + Cardinality(bucket) = 1

\* C25, the converse state: the hook process exited unanswered and nothing is
\* stored although its request was handled to the end.
C25_WitnessNothingStored ==
    \E r \in Slots :
        /\ ExitedUnanswered(r)
        /\ req[r].origin = "hook" /\ req[r].pc = "done" /\ ~req[r].wrote
        /\ coll = <<>> /\ bucket = {}

\* The request of slot r was answered with `status` before any backend work.
AnsweredEarly(r, status) ==
    req[r].pc = "done" /\ req[r].status = status /\ req[r].nresp = 1 /\ Untouched(r)

\* The payload of slot r is a JSON object carrying both required fields.
CompletePayload(r) ==
    /\ req[r].in.body.kind = "object"
    /\ SessionIdOf(r) \notin {Undefined, ""}
    /\ Get(req[r].in.body.obj, "tool_use_id") \notin {Undefined, ""}

\* The x-api-key of slot r is refused.
KeyRefused(r) == env.apiKey /\ req[r].in.key # ExpectedKey

\* C27: src/api/upload.ts checks method, then authentication, then the
\* payload, then the configuration, and only the first failing check
\* answers: a non-POST request gets 405 whatever its key, a POST with a
\* refused key gets 401 whatever its payload, and a POST with an accepted
\* key and an invalid payload gets 400 whatever the backend configuration.
C27_FirstFailingCheckAnswers ==
    variant = "upload" =>
        \A r \in Slots :
            Arrived(r) =>
                /\ req[r].in.method # "POST" => AnsweredEarly(r, 405)
                /\ (req[r].in.method = "POST" /\ KeyRefused(r)) => AnsweredEarly(r, 401)
                /\ (req[r].in.method = "POST" /\ ~KeyRefused(r) /\ ~CompletePayload(r))
                      => AnsweredEarly(r, 400)
                /\ (req[r].in.method = "POST" /\ ~KeyRefused(r) /\ CompletePayload(r))
                      => req[r].status \notin {400, 401, 405}

\* C27, for every request whose body is a JSON object the order holds as
\* stated; a POST without a body is answered by the validation stage too,
\* before the configuration is read, but with 500.
C27_OrderForObjectPayloads ==
    variant = "upload" =>
        \A r \in Slots :
            Arrived(r) =>
                /\ req[r].in.method # "POST" => AnsweredEarly(r, 405)
                /\ (req[r].in.method = "POST" /\ KeyRefused(r)) => AnsweredEarly(r, 401)
                /\ (req[r].in.method = "POST" /\ ~KeyRefused(r) /\ ~CompletePayload(r))
                      => IF req[r].in.body.kind = "object"
                         THEN AnsweredEarly(r, 400)
                         ELSE AnsweredEarly(r, 500) /\ req[r].message = "TypeError"
                /\ (req[r].in.method = "POST" /\ ~KeyRefused(r) /\ CompletePayload(r))
                      => req[r].status \notin {400, 401, 405}

\* C27 case: with API_KEY configured and MONGODB_URI missing, a POST with a
\* refused key and an invalid payload is answered 401 and a POST with the
\* right key and an invalid payload is answered 400.
C27_Witness ==
    /\ variant = "upload" /\ env.apiKey /\ ~env.uri
    /\ \E r1, r2 \in Slots :
        /\ req[r1].in.method = "POST" /\ KeyRefused(r1) /\ ~CompletePayload(r1)
        /\ req[r1].status = 401
        /\ req[r2].in.method = "POST" /\ ~KeyRefused(r2) /\ req[r2].in.body.kind = "object"
        /\ ~CompletePayload(r2) /\ req[r2].status = 400

\* The record the document store holds for the document of request r.
OwnRecord(r) == Spread(req[r].doc, [_id |-> req[r].id])

\* The object the blob store holds after the write of request r.
OwnObject(r) == [key |-> req[r].key, body |-> Stringify(req[r].doc, DocStringKeys)]

\* C28 as claimed: every request answered with success has exactly one
\* document, or object, of its own in the store, and the id or key returned
\* identifies it.
C28_OwnDocumentInStore ==
    \A r \in Slots :
        Accepted(r) =>
            /\ req[r].wrote
            /\ IF IsBlob(variant)
               THEN /\ OwnObject(r) \in bucket
                    /\ Cardinality({o \in bucket : o.key = req[r].key}) = 1
               ELSE /\ req[r].id \in 1..Len(coll)
                    /\ coll[req[r].id] = OwnRecord(r)
                    /\ Cardinality({i \in 1..Len(coll) : coll[i] = OwnRecord(r)}) = 1

\* C28: a request is answered with success only after its own single write
\* succeeded.  In the document store it then has exactly one record of its
\* own, at the id returned.  In the blob store the key returned is the key of
\* its session and names exactly one object, which holds the document of a
\* successfully written request of that key: its own, unless another
\* request of the key was written too.
C28_SuccessAfterOwnWrite ==
    \A r \in Slots :
        Accepted(r) =>
            /\ req[r].wrote /\ req[r].writes = 1
            /\ IF IsBlob(variant)
               THEN /\ req[r].key = S3Key(SessionIdOf(r))
                    /\ Cardinality({o \in bucket : o.key = req[r].key}) = 1
                    /\ \E s \in Slots :
                          /\ req[s].wrote /\ req[s].key = req[r].key
                          /\ OwnObject(s) \in bucket
                    /\ (\A s \in Slots \ {r} : ~(req[s].wrote /\ req[s].key = req[r].key))
                          => OwnObject(r) \in bucket
               ELSE /\ req[r].id \in 1..Len(coll)
                    /\ coll[req[r].id] = OwnRecord(r)
                    /\ Cardinality({i \in 1..Len(coll) : coll[i] = OwnRecord(r)}) = 1

\* C28 case: two requests of one session were both answered with success by
\* the blob-store revision and the object at their key is the document of
\* one of them only.
C28_Witness ==
    \E r1, r2 \in Slots :
        /\ IsBlob(variant) /\ r1 # r2
        /\ Accepted(r1) /\ Accepted(r2)
        /\ req[r1].key = req[r2].key
        /\ OwnObject(r1) \notin bucket /\ OwnObject(r2) \in bucket

\* The hook.ts process of slot r has called uploadToAPI with no destination
\* URL supplied by the environment variable or by the .env file.
CalledWithoutUrl(r) ==
    /\ hook[r].variant = "hook_ts" /\ hook[r].pc # "idle"
    /\ "hook_error" \notin hook[r].log
    /\ hook[r].urlEnv \in {Undefined, ""}
    /\ hook[r].urlFile \in {Undefined, ""}

\* C29: when neither the environment variable nor the .env file supplies
\* CLAUDE_TRANSCRIPT_API_URL, the hook of src/src/hook.ts sends no request
\* and arms no abort timer: it reports the missing configuration, waits for
\* the grace timer alone and exits 0.
C29_NoUrlNoRequest ==
    \A r \in Slots :
        CalledWithoutUrl(r) =>
            /\ hook[r].posts = 0 /\ hook[r].wire = "none" /\ hook[r].fetch = "none"
            /\ req[r].origin # "hook"
            /\ \A t \in hook[r].timers : t.kind # "abort"
            /\ "not_configured" \in hook[r].log
            /\ ~hook[r].unhandled
            /\ \/ /\ hook[r].pc = "grace"
                  /\ hook[r].timers = {[kind |-> "grace", at |-> GraceMs]}
               \/ hook[r].pc = "exited" /\ hook[r].exit = 0

\* C29 case: a hook.ts process without a destination URL has exited 0 and
\* the endpoint has seen no request.
C29_Witness ==
    \E r \in Slots :
        /\ CalledWithoutUrl(r)
        /\ hook[r].pc = "exited" /\ hook[r].exit = 0
        /\ \A s \in Slots : ~Arrived(s)

\* The entry names this hook: it is an object whose hooks array holds a hook
\* with a string command containing "claude-hook".
NamesHook(e) ==
    /\ e.kind = "object" /\ e.hkind = "array"
    /\ \E i \in 1..Len(e.hitems) :
          /\ e.hitems[i].kind = "object" /\ e.hitems[i].ckind = "string"
          /\ \E j \in 1..Len(e.hitems[i].words) : e.hitems[i].words[j] = "claude-hook"

\* The SessionEnd list of a settings file: empty when there is none.
SessionEndOf(file) ==
    IF file.kind = "object" /\ file.hooks.kind = "object"
          /\ file.hooks.SessionEnd.kind = "array"
    THEN file.hooks.SessionEnd.items ELSE <<>>

\* Entries of the file's SessionEnd list that name this hook.
HookEntries(file) ==
    {i \in 1..Len(SessionEndOf(file)) : NamesHook(SessionEndOf(file)[i])}

\* Every key, event and entry of `before` is in `after` as it was.
Kept(before, after) ==
    /\ after.kind = "object"
    /\ after.other = before.other
    /\ before.hooks.kind = "object" => after.hooks.other = before.hooks.other
    /\ Len(SessionEndOf(after)) >= Len(SessionEndOf(before))
    /\ SubSeq(SessionEndOf(after), 1, Len(SessionEndOf(before))) = SessionEndOf(before)

\* C30: after k >= 1 runs of install from a parseable settings.json, the
\* SessionEnd list holds exactly one entry whose command contains
\* "claude-hook" and every other key and entry is as before the first run.
C30_InstallIdempotent ==
    (inst.runs >= 1 /\ inst.original.kind \notin {"missing", "garbage"})
        => /\ Cardinality(HookEntries(inst.file)) = 1
           /\ Kept(inst.original, inst.file)

\* The settings file has the shape install reads without raising: an object
\* whose hooks is absent, null or an object, whose SessionEnd is absent,
\* null or an array, and whose entries' hooks are absent or arrays of hooks
\* with absent or string commands.
WellShaped(file) ==
    /\ file.kind = "object"
    /\ file.hooks.kind \in {"absent", "null", "object"}
    /\ file.hooks.SessionEnd.kind \in {"absent", "null", "array"}
    /\ \A i \in 1..Len(SessionEndOf(file)) :
          LET e == SessionEndOf(file)[i]
          IN  e.kind = "object" =>
                 /\ e.hkind \in {"absent", "array"}
                 /\ \A j \in 1..Len(e.hitems) :
                       e.hitems[j].kind = "object" => e.hitems[j].ckind \in {"absent", "string"}

\* C30, for a well-shaped settings.json holding at most one entry that names
\* the hook: no run raises, after every run exactly one entry names the hook
\* and every other key and entry is as before the first run.
C30_IdempotentWhenWellShaped ==
    (inst.runs >= 1 /\ WellShaped(inst.original)
        /\ Cardinality(HookEntries(inst.original)) <= 1)
        => /\ ~inst.threw
           /\ Cardinality(HookEntries(inst.file)) = 1
           /\ Kept(inst.original, inst.file)

\* C30 case: three runs from a settings.json with another SessionEnd entry
\* and no entry of this hook left the other entry first and one new entry
\* after it.
C30_Witness ==
    /\ inst.runs = MaxRuns /\ WellShaped(inst.original)
    /\ Len(SessionEndOf(inst.original)) = 1 /\ HookEntries(inst.original) = {}
    /\ SessionEndOf(inst.file) = Append(SessionEndOf(inst.original), NewEntry)

\* C30, a state that refutes it: install raised on a parseable settings.json
\* and left it without an entry of this hook.
C30_WitnessRaised ==
    /\ inst.runs >= 1 /\ inst.threw
    /\ inst.original.kind \notin {"missing", "garbage"}
    /\ HookEntries(inst.file) = {}

====
